---- MODULE Spec2Model ----
(***************************************************************************)
(* scripts/make_help.py of bb-imager-rs: scan Makefiles for "## g:c:d"     *)
(* comment lines, group them, and print a sorted help listing.            *)
(*                                                                         *)
(* A text is a sequence of one-character strings.  A line is the text of   *)
(* one line of a file without its line terminator (str.strip removes the   *)
(* terminator before anything looks at the line).  A dict is the sequence  *)
(* of its items [key, val] in insertion order, with unique keys.           *)
(***************************************************************************)
EXTENDS Integers, Sequences, FiniteSets, TLC

VARIABLES
    missing,       \* the supplied paths for which open() raises FileNotFoundError
    args,          \* main: args.files, the paths given on the command line
    pc,            \* position of the run
    fileIdx,       \* create_help: number of paths taken from `files` so far
    lineIdx,       \* parse_makefile: number of lines read from the open file
    line,          \* parse_makefile: the local `line` (after line.strip())
    partial,       \* parse_makefile: the local `result`
    file_results,  \* create_help: the local `file_results`
    returned,      \* every value parse_makefile has returned so far, in order
    result,        \* create_help: the local `result` (main: help_dict)
    pending,       \* print_help: the sorted items not yet printed
    stdout         \* what print() has written to standard output so far

vars == <<missing, args, pc, fileIdx, lineIdx, line, partial, file_results,
          returned, result, pending, stdout>>

----------------------------------------------------------------------------
(* Bounds and input sets *)

MaxLines == 2        \* lines read from one file (Spec)
MaxLineLen == 6      \* length of a line of LineUniverse (SpecLine)

Paths == {"A", "B"}
ArgLists == {<<"A">>, <<"A", "B">>, <<"A", "A">>}
Cause == "cause"     \* str(e) of a read error

LineAlphabet == {" ", "#", ":", "a"}

RECURSIVE TextsUpTo(_, _)
TextsUpTo(alphabet, n) ==
    IF n = 0 THEN {<<>>}
    ELSE LET shorter == TextsUpTo(alphabet, n - 1)
         IN  shorter \cup {Append(t, c) : t \in shorter, c \in alphabet}

LineUniverse == TextsUpTo(LineAlphabet, MaxLineLen)

FileLines ==
    { <<"#", "#", " ", "b", ":", "b", ":", "a">>,                  \* ## b:b:a
      <<" ", "#", "#", " ", "b", " ", ":", "b", ":", " ", "a", " ">>,  \*  ## b :b: a
      <<"#", "#", " ", "b", ":", "a", ":", "b">>,                  \* ## b:a:b
      <<"#", "#", " ", "a", ":", "b", ":", "a", ":", "b">>,        \* ## a:b:a:b
      <<"#", "#", " ", "a", ":", "b">>,                            \* ## a:b
      <<"#", " ", "a", ":", "b", ":", "a">> }                      \* # a:b:a

----------------------------------------------------------------------------
(* Text operations of Python's str *)

Whitespace == {" "}
Marker == <<"#", "#", " ">>
MarkerChars == {"#", " "}
Separator == ":"
MaxSplit == 2

Ord(c) ==
    CASE c = " " -> 32
      [] c = "#" -> 35
      [] c = ":" -> 58
      [] c = "a" -> 97
      [] c = "b" -> 98

RECURSIVE LStripChars(_, _)
LStripChars(s, chars) ==
    IF s # <<>> /\ Head(s) \in chars THEN LStripChars(Tail(s), chars) ELSE s

RECURSIVE RStripChars(_, _)
RStripChars(s, chars) ==
    IF s # <<>> /\ s[Len(s)] \in chars
    THEN RStripChars(SubSeq(s, 1, Len(s) - 1), chars)
    ELSE s

Strip(s) == RStripChars(LStripChars(s, Whitespace), Whitespace)

StartsWith(s, prefix) ==
    /\ Len(s) >= Len(prefix)
    /\ SubSeq(s, 1, Len(prefix)) = prefix

RECURSIVE Split(_, _, _)
Split(s, sep, maxsplit) ==
    IF maxsplit = 0 \/ ~(\E i \in DOMAIN s : s[i] = sep)
    THEN <<s>>
    ELSE LET i == CHOOSE k \in DOMAIN s :
                      s[k] = sep /\ \A j \in 1..(k - 1) : s[j] # sep
         IN  <<SubSeq(s, 1, i - 1)>>
                 \o Split(SubSeq(s, i + 1, Len(s)), sep, maxsplit - 1)

RECURSIVE StrLess(_, _)
StrLess(s, t) ==
    IF t = <<>> THEN FALSE
    ELSE IF s = <<>> THEN TRUE
    ELSE IF Head(s) # Head(t) THEN Ord(Head(s)) < Ord(Head(t))
    ELSE StrLess(Tail(s), Tail(t))

TupleLess(x, y) ==
    \/ StrLess(x[1], y[1])
    \/ x[1] = y[1] /\ StrLess(x[2], y[2])

----------------------------------------------------------------------------
(* dict and list operations *)

EmptyDict == <<>>

Keys(d) == {d[i].key : i \in DOMAIN d}

Get(d, k) ==
    IF k \in Keys(d)
    THEN d[CHOOSE i \in DOMAIN d : d[i].key = k].val
    ELSE <<>>

Extend(d, k, vs) ==
    IF k \in Keys(d)
    THEN [i \in DOMAIN d |->
             IF d[i].key = k THEN [key |-> k, val |-> d[i].val \o vs] ELSE d[i]]
    ELSE Append(d, [key |-> k, val |-> vs])

(* result[group] = targets instead of result[group].extend(targets) *)
RECURSIVE MergeItems_Overwrite(_, _)
MergeItems_Overwrite(d, items) ==
    IF items = <<>> THEN d
    ELSE LET k == Head(items).key
             assigned ==
                 IF k \in Keys(d)
                 THEN [i \in DOMAIN d |->
                          IF d[i].key = k THEN Head(items) ELSE d[i]]
                 ELSE Append(d, Head(items))
         IN  MergeItems_Overwrite(assigned, Tail(items))

RECURSIVE MergeItems(_, _)
MergeItems(d, items) ==
    IF items = <<>> THEN d
    ELSE MergeItems(Extend(d, Head(items).key, Head(items).val), Tail(items))

(* sorted(): a stable ascending sort.  x[i] goes to the place given by the
   number of elements that are smaller, or equal and earlier. *)
ItemRank(d, i) ==
    1 + Cardinality({j \in DOMAIN d :
                        \/ StrLess(d[j].key, d[i].key)
                        \/ ~StrLess(d[i].key, d[j].key) /\ j < i})

SortedItems(d) ==
    [k \in DOMAIN d |-> d[CHOOSE i \in DOMAIN d : ItemRank(d, i) = k]]

TargetRank(targets, i) ==
    1 + Cardinality({j \in DOMAIN targets :
                        \/ TupleLess(targets[j], targets[i])
                        \/ ~TupleLess(targets[i], targets[j]) /\ j < i})

(* `for command, description in targets` without sorted() *)
SortedTargets_Unsorted(targets) == targets

SortedTargets(targets) ==
    [k \in DOMAIN targets |->
        targets[CHOOSE i \in DOMAIN targets : TargetRank(targets, i) = k]]

----------------------------------------------------------------------------
(* What print() writes: one tuple per printed line *)

NotFoundDiag(path) == <<"not_found", path>>          \* "Error: Could not find Makefile: {file}"
ReadErrorDiag(path, cause) == <<"read_error", path, cause>>  \* "Error processing {file}: {str(e)}"
MalformedDiag(path, l) == <<"malformed", path, l>>   \* "Warning: Skipping malformed line in {file}: {line}"
TitleLine == <<"title">>                             \* "A list of available targets and variables"
BlankLine == <<"blank">>
NoHelpLine == <<"no_help">>                          \* "No help information found ..."
GroupLine(group) == <<"group", group>>               \* "    [{group}]"
EntryLine(target) == <<"entry", target[1], target[2]>>  \* "    {command: <32}# {description}"

DiagKinds == {"not_found", "read_error", "malformed"}

----------------------------------------------------------------------------
(* parse_makefile: one iteration of `for line in f` *)

(* line.startswith("##"), the marker without its space *)
IsHelpLine_NoSpace(s) == StartsWith(s, <<"#", "#">>)

IsHelpLine(s) == StartsWith(s, Marker)

SplitFields(s) == Split(LStripChars(s, MarkerChars), Separator, MaxSplit)

ParsedTable(table, s) ==
    IF ~IsHelpLine(s) THEN table
    ELSE LET data == SplitFields(s)
         IN  IF Len(data) # 3 THEN table
             ELSE Extend(table, Strip(data[1]),
                         << <<Strip(data[2]), Strip(data[3])>> >>)

ScanLine(l) ==
    /\ pc = "scan"
    /\ line' = Strip(l)
    /\ partial' = ParsedTable(partial, Strip(l))
    /\ lineIdx' = lineIdx + 1
    /\ UNCHANGED <<missing, args, pc, fileIdx, file_results, returned, result, pending,
                   stdout>>

(* parse_makefile: the file is exhausted, `return dict(result)` *)
EndOfFile ==
    /\ pc = "scan"
    /\ file_results' = partial
    /\ returned' = Append(returned, partial)
    /\ partial' = EmptyDict
    /\ line' = <<>>
    /\ lineIdx' = 0
    /\ pc' = "merge"
    /\ UNCHANGED <<missing, args, fileIdx, result, pending, stdout>>

(* parse_makefile: open() or the iteration raises an Exception other than
   FileNotFoundError; the handler prints and falls through to the return *)
ReadError ==
    /\ pc = "scan"
    /\ stdout' = Append(stdout, ReadErrorDiag(args[fileIdx], Cause))
    /\ file_results' = partial
    /\ returned' = Append(returned, partial)
    /\ partial' = EmptyDict
    /\ line' = <<>>
    /\ lineIdx' = 0
    /\ pc' = "merge"
    /\ UNCHANGED <<missing, args, fileIdx, result, pending>>

----------------------------------------------------------------------------
(* create_help *)

(* `for file_path in files`: parse_makefile is entered and open() succeeds *)
OpenFile ==
    /\ pc = "create_help"
    /\ fileIdx < Len(args)
    /\ args[fileIdx + 1] \notin missing
    /\ fileIdx' = fileIdx + 1
    /\ partial' = EmptyDict
    /\ lineIdx' = 0
    /\ line' = <<>>
    /\ pc' = "scan"
    /\ UNCHANGED <<missing, args, file_results, returned, result, pending, stdout>>

(* FileNotFoundError is not caught: the run ends with a traceback *)
FileNotFound_Aborts ==
    /\ pc = "create_help"
    /\ fileIdx < Len(args)
    /\ args[fileIdx + 1] \in missing
    /\ fileIdx' = fileIdx + 1
    /\ pc' = "aborted"
    /\ UNCHANGED <<missing, args, lineIdx, line, partial, file_results, returned,
                   result, pending, stdout>>

(* parse_makefile is entered and open() raises FileNotFoundError *)
FileNotFound ==
    /\ pc = "create_help"
    /\ fileIdx < Len(args)
    /\ args[fileIdx + 1] \in missing
    /\ fileIdx' = fileIdx + 1
    /\ stdout' = Append(stdout, NotFoundDiag(args[fileIdx + 1]))
    /\ file_results' = EmptyDict
    /\ returned' = Append(returned, EmptyDict)
    /\ pc' = "merge"
    /\ UNCHANGED <<missing, args, lineIdx, line, partial, result, pending>>

(* `for group, targets in file_results.items(): result[group].extend(targets)` *)
Merge ==
    /\ pc = "merge"
    /\ result' = MergeItems(result, file_results)
    /\ file_results' = EmptyDict
    /\ pc' = "create_help"
    /\ UNCHANGED <<missing, args, fileIdx, lineIdx, line, partial, returned, pending,
                   stdout>>

----------------------------------------------------------------------------
(* main and print_help *)

PrintHeader ==
    /\ pc = "create_help"
    /\ fileIdx = Len(args)
    /\ stdout' = stdout \o <<TitleLine, BlankLine>>
    /\ pc' = "print_help"
    /\ UNCHANGED <<missing, args, fileIdx, lineIdx, line, partial, file_results,
                   returned, result, pending>>

PrintHelpEmpty ==
    /\ pc = "print_help"
    /\ result = EmptyDict
    /\ stdout' = Append(stdout, NoHelpLine)
    /\ pc' = "done"
    /\ UNCHANGED <<missing, args, fileIdx, lineIdx, line, partial, file_results,
                   returned, result, pending>>

(* `for group, targets in sorted(help_dict.items())` is entered *)
PrintHelpTable ==
    /\ pc = "print_help"
    /\ result # EmptyDict
    /\ pending' = SortedItems(result)
    /\ pc' = "print_group"
    /\ UNCHANGED <<missing, args, fileIdx, lineIdx, line, partial, file_results,
                   returned, result, stdout>>

EntryLines(targets) == [i \in DOMAIN targets |-> EntryLine(targets[i])]

(* one iteration of the loop over the groups: the header, the sorted
   entries, a blank line *)
PrintGroup ==
    /\ pc = "print_group"
    /\ stdout' = stdout \o <<GroupLine(Head(pending).key)>>
                        \o EntryLines(SortedTargets(Head(pending).val))
                        \o <<BlankLine>>
    /\ pending' = Tail(pending)
    /\ pc' = IF Tail(pending) = <<>> THEN "done" ELSE "print_group"
    /\ UNCHANGED <<missing, args, fileIdx, lineIdx, line, partial, file_results,
                   returned, result>>

----------------------------------------------------------------------------
(* Specifications *)

Init ==
    /\ args \in ArgLists
    /\ missing \in SUBSET {args[i] : i \in DOMAIN args}
    /\ pc = "create_help"
    /\ fileIdx = 0
    /\ lineIdx = 0
    /\ line = <<>>
    /\ partial = EmptyDict
    /\ file_results = EmptyDict
    /\ returned = <<>>
    /\ result = EmptyDict
    /\ pending = <<>>
    /\ stdout = <<>>

ReadFileLine ==
    /\ lineIdx < MaxLines
    /\ \E l \in FileLines : ScanLine(l)

Next ==
    \/ OpenFile
    \/ FileNotFound
    \/ ReadFileLine
    \/ EndOfFile
    \/ ReadError
    \/ Merge
    \/ PrintHeader
    \/ PrintHelpEmpty
    \/ PrintHelpTable
    \/ PrintGroup

Spec == Init /\ [][Next]_vars

(* The run is sequential and never waits: whenever a step is possible one is taken. *)
FairSpec == Spec /\ WF_vars(Next)

(* One file whose last line is any text of LineUniverse, after at most one
   line of FileLines. *)
LeadLines == {Strip(l) : l \in FileLines}

InitLine == Init /\ args = <<"A">>

ReadLeadLine ==
    /\ lineIdx = 0
    /\ \E l \in FileLines : ScanLine(l)

ReadAnyLine ==
    /\ lineIdx = 0 \/ (lineIdx = 1 /\ line \in LeadLines)
    /\ \E l \in LineUniverse : ScanLine(l)

NextLine ==
    \/ OpenFile
    \/ FileNotFound
    \/ ReadLeadLine
    \/ ReadAnyLine
    \/ EndOfFile
    \/ ReadError
    \/ Merge
    \/ PrintHeader
    \/ PrintHelpEmpty
    \/ PrintHelpTable
    \/ PrintGroup

SpecLine == InitLine /\ [][NextLine]_vars

----------------------------------------------------------------------------
(* Vocabulary of the properties *)

(* a step that is one iteration of `for line in f`; line' is the line read, trimmed *)
ScanStep == pc = "scan" /\ pc' = "scan" /\ lineIdx' = lineIdx + 1

HasMarker(s) == Len(s) >= 3 /\ s[1] = "#" /\ s[2] = "#" /\ s[3] = " "

(* the text after the three characters of the marker *)
Body(s) == SubSeq(s, 4, Len(s))

ColonsAt(s) == {i \in DOMAIN s : s[i] = ":"}

Least(S) == CHOOSE x \in S : \A y \in S : x <= y

FirstColon(s) == Least(ColonsAt(s))

SecondColon(s) == Least(ColonsAt(s) \ {FirstColon(s)})

BodyGroup(s) == Strip(SubSeq(Body(s), 1, FirstColon(Body(s)) - 1))

BodyCommand(s) ==
    Strip(SubSeq(Body(s), FirstColon(Body(s)) + 1, SecondColon(Body(s)) - 1))

BodyDescription(s) == Strip(SubSeq(Body(s), SecondColon(Body(s)) + 1, Len(Body(s))))

Count(seq, x) == Cardinality({i \in DOMAIN seq : seq[i] = x})

Range(seq) == {seq[i] : i \in DOMAIN seq}

IsPrefix(s, t) == Len(s) <= Len(t) /\ SubSeq(t, 1, Len(s)) = s

RECURSIVE ConcatGroup(_, _)
ConcatGroup(tables, g) ==
    IF tables = <<>> THEN <<>>
    ELSE Get(Head(tables), g) \o ConcatGroup(Tail(tables), g)

AllKeys(tables) == UNION {Keys(tables[i]) : i \in DOMAIN tables}

IsDiag(out) == out[1] \in DiagKinds

(* the values parse_makefile returned that create_help has already merged *)
Merged == IF pc = "merge" THEN SubSeq(returned, 1, Len(returned) - 1) ELSE returned

(* the part of standard output print_help wrote *)
TitleAt == CHOOSE i \in DOMAIN stdout : stdout[i] = TitleLine
Listing == SubSeq(stdout, TitleAt + 2, Len(stdout))

----------------------------------------------------------------------------
(* C1: a line that has the marker but does not split into three fields adds
   no entry, and exactly one diagnostic naming the line and its file is
   printed; the scan goes on to the next line. *)
C1_MalformedLineDiagnosed ==
    [][ ScanStep /\ HasMarker(line') /\ Cardinality(ColonsAt(Body(line'))) < 2
        => /\ partial' = partial
           /\ stdout' = Append(stdout, MalformedDiag(args[fileIdx], line')) ]_vars

(* C2: when reading a file fails with an error other than file-not-found,
   one diagnostic carrying the cause is printed and parse_makefile returns an
   empty table, also when lines of the file were parsed before the failure. *)
C2_ReadErrorReturnsEmpty ==
    [][ pc = "scan" /\ stdout' = Append(stdout, ReadErrorDiag(args[fileIdx], Cause))
        => file_results' = EmptyDict ]_vars

(* C3: every entry of the table has a non-empty group, a non-empty command
   and a non-empty description. *)
C3_EntriesHaveNonEmptyFields ==
    \A i \in DOMAIN result :
        /\ result[i].key # <<>>
        /\ \A j \in DOMAIN result[i].val :
               result[i].val[j][1] # <<>> /\ result[i].val[j][2] # <<>>

(* C4: a supplied file that does not exist contributes no entry and exactly
   one diagnostic naming it; the run does not abort: all the files are
   scanned, their entries are in the final table, and the run reaches the
   rendering. *)
C4_MissingReturnsNothing ==
    \A i \in DOMAIN returned : args[i] \in missing => returned[i] = EmptyDict

C4_OneDiagnosticEach ==
    \A p \in missing :
        /\ Count(stdout, NotFoundDiag(p))
               = Cardinality({i \in DOMAIN returned : args[i] = p})
        /\ \A k \in DOMAIN stdout :
               IsDiag(stdout[k]) /\ stdout[k][2] = p => stdout[k] = NotFoundDiag(p)

C4_AllFilesInTable ==
    pc \in {"print_help", "print_group", "done"}
        => /\ Len(returned) = Len(args)
           /\ \A j \in DOMAIN returned : \A g \in Keys(returned[j]) :
                  \A e \in Range(Get(returned[j], g)) :
                      Count(Get(result, g), e) >= Count(Get(returned[j], g), e)

C4_MissingMergeAddsNothing ==
    pc = "merge" /\ args[fileIdx] \in missing => result' = result

C4_MissingFileSupplied == \E i \in DOMAIN args : args[i] \in missing

(* C4, as one property: the three state conditions above always hold, the
   merge after a missing file adds nothing, and a run that was given a
   missing file reaches the end of the rendering. *)
C4_Safe == C4_MissingReturnsNothing /\ C4_OneDiagnosticEach /\ C4_AllFilesInTable

C4_MissingFileDoesNotAbort ==
    /\ C4_Safe
    /\ [][C4_Safe' /\ C4_MissingMergeAddsNothing]_vars
    /\ (C4_MissingFileSupplied ~> pc = "done")

C4_Witness ==
    /\ pc = "done"
    /\ Len(args) = 2
    /\ args[1] \in missing
    /\ args[2] \notin missing
    /\ returned[2] # EmptyDict
    /\ result = returned[2]
    /\ Count(stdout, NotFoundDiag(args[1])) = 1

(* C5: a line with the marker whose body has at least two ':' adds exactly
   one entry: group is the trimmed text before the first ':', command the
   trimmed text between the first and the second ':', description the
   trimmed rest, further ':' included. *)
C5_ThreeFieldsFromBody ==
    [][ ScanStep /\ HasMarker(line') /\ Cardinality(ColonsAt(Body(line'))) >= 2
        => /\ Keys(partial') = Keys(partial) \cup {BodyGroup(line')}
           /\ Get(partial', BodyGroup(line'))
                  = Append(Get(partial, BodyGroup(line')),
                           <<BodyCommand(line'), BodyDescription(line')>>)
           /\ \A g \in Keys(partial) \ {BodyGroup(line')} :
                  Get(partial', g) = Get(partial, g) ]_vars

(* C6: for each group the table of create_help is the concatenation, in the
   order of the files, of what parse_makefile returned for each file, nothing
   dropped or deduplicated; within a file the entries of a group stay in the
   order of the lines. *)
C6_TableIsConcatenation ==
    /\ Keys(result) = AllKeys(Merged)
    /\ \A g \in Keys(result) : Get(result, g) = ConcatGroup(Merged, g)

C6_LineOrderKept ==
    ScanStep => \A g \in Keys(partial) : IsPrefix(Get(partial, g), Get(partial', g))

(* C6, as one property: the table is always the per-group concatenation of
   the returned tables, and a scan step only appends to a group's list. *)
C6_AggregationIsConcatenation ==
    /\ C6_TableIsConcatenation
    /\ [][C6_TableIsConcatenation' /\ C6_LineOrderKept]_vars

C6_Witness ==
    /\ pc = "done"
    /\ Len(returned) = 2
    /\ \E g \in Keys(returned[1]) \cap Keys(returned[2]) :
           /\ Len(Get(returned[1], g)) = 2
           /\ Get(returned[1], g)[1] # Get(returned[1], g)[2]
           /\ Get(returned[1], g)[1] \in Range(Get(returned[2], g))
           /\ Len(Get(result, g)) = 2 + Len(Get(returned[2], g))

(* C7: no diagnostic is written to standard output. *)
C7_NoDiagnosticOnStdout == \A k \in DOMAIN stdout : ~IsDiag(stdout[k])

(* C8: a line that, trimmed, does not start with the marker adds no entry,
   prints nothing and leaves the table as it was. *)
C8_UnmarkedLineIgnored ==
    [][ ScanStep /\ ~HasMarker(line')
        => partial' = partial /\ stdout' = stdout /\ result' = result ]_vars

C8_Witness ==
    /\ pc = "scan"
    /\ lineIdx = 2
    /\ partial # EmptyDict
    /\ ~HasMarker(line)
    /\ Len(line) >= 2 /\ line[1] = "#" /\ line[2] = "#"
    /\ Cardinality(ColonsAt(line)) >= 2

(* C9: only the marker is removed before the split: the group of the entry a
   marked line adds is the trimmed text between the marker and the first
   ':', a '#' right after the marker included. *)
C9_OnlyMarkerRemoved ==
    [][ ScanStep /\ HasMarker(line') /\ Cardinality(ColonsAt(Body(line'))) >= 2
        => Len(Get(partial', BodyGroup(line')))
               = Len(Get(partial, BodyGroup(line'))) + 1 ]_vars

(* C10: for a non-empty table print_help prints the groups in ascending
   order of their names, the entries of each group in ascending order of
   (command, description), and every entry of the table exactly once. *)
C10_GroupLinesAscend ==
    \A i, j \in DOMAIN Listing :
        i < j /\ Listing[i][1] = "group" /\ Listing[j][1] = "group"
            => StrLess(Listing[i][2], Listing[j][2])

C10_EntryLinesAscend ==
    \A i \in 1..(Len(Listing) - 1) :
        Listing[i][1] = "entry" /\ Listing[i + 1][1] = "entry"
            => ~TupleLess(<<Listing[i + 1][2], Listing[i + 1][3]>>,
                          <<Listing[i][2], Listing[i][3]>>)

(* the entry lines between the header of group g and the next blank line *)
C10_Block(g) ==
    LET h == CHOOSE i \in DOMAIN Listing : Listing[i] = GroupLine(g)
        b == Least({i \in DOMAIN Listing : i > h /\ Listing[i] = BlankLine})
    IN  SubSeq(Listing, h + 1, b - 1)

C10_EveryEntryOnce ==
    /\ {Listing[i][2] : i \in {k \in DOMAIN Listing : Listing[k][1] = "group"}}
           = Keys(result)
    /\ Len(Listing) = 2 * Len(result)
           + Cardinality(UNION {{<<i, j>> : j \in DOMAIN result[i].val} : i \in DOMAIN result})
    /\ \A g \in Keys(result) :
           /\ Count(Listing, GroupLine(g)) = 1
           /\ Len(C10_Block(g)) = Len(Get(result, g))
           /\ \A e \in Range(Get(result, g)) :
                  Count(C10_Block(g), EntryLine(e)) = Count(Get(result, g), e)

(* C10, as one property of the finished run: groups ascend, entries ascend,
   every entry is printed exactly once. *)
C10_ListingSorted ==
    pc = "done" /\ result # EmptyDict
        => C10_GroupLinesAscend /\ C10_EntryLinesAscend /\ C10_EveryEntryOnce

C10_Witness ==
    /\ pc = "done"
    /\ Len(result) = 2
    /\ StrLess(result[2].key, result[1].key)
    /\ \E i \in DOMAIN result :
           /\ Len(result[i].val) = 3
           /\ TupleLess(result[i].val[2], result[i].val[1])
           /\ result[i].val[3] = result[i].val[1]

====
